---- MODULE Spec2Model ----
(***************************************************************************)
(* Model of src/main.py: the FastAPI document-ingestion service.           *)
(*                                                                         *)
(* POST /upload (upload_file) is modelled as one process per in-flight     *)
(* request, cut into steps at each call of an external collaborator        *)
(* (temporary file system, text extractor, vector index, index stats,      *)
(* archive store).  Each collaborator call either returns or raises; the   *)
(* control flow of the handler's try / finally / except blocks decides     *)
(* what follows.  GET /query (query_documents) is modelled as an atomic    *)
(* operation under the specification SpecQuery.                            *)
(***************************************************************************)
EXTENDS Integers, Sequences, FiniteSets, TLC

\* ---------------------------------------------------------------- bounds
NumReqs == 2        \* concurrent POST /upload requests
MaxNodes == 1       \* chunks node_parser may produce for one upload
MaxIndexed == 3     \* records already in the index when queries are served

\* ------------------------------------------------------ program constants
MinLimit == 1       \* Query(10, ge=1, ...)
MaxLimit == 50      \* Query(10, ..., le=50)

Reqs == 1..NumReqs

\* datetime.now().strftime("%Y/%m/%d"): the dates a request may read
Days == {"2025/03/30", "2025/03/31"}

NoneStr == "<None>"
NoKey == <<>>
NoName == <<>>

\* readers: the static extension -> reader mapping (its key set)
readers == {".pdf", ".docx", ".txt", ".md", ".xlsx"}

\* str.lower() on the suffixes the model feeds in
Lower(s) ==
    CASE s = ".TXT" -> ".txt"
      [] s = ".PDF" -> ".pdf"
      [] s = ".EXE" -> ".exe"
      [] OTHER -> s

\* uploaded file names: stem and Path(filename).suffix
Filenames ==
    { [stem |-> "brief", suffix |-> ".txt"],
      [stem |-> "brief", suffix |-> ".PDF"],
      [stem |-> "tool", suffix |-> ".exe"],
      [stem |-> "README", suffix |-> ""] }

NoFile == [stem |-> "", suffix |-> ""]

\* file_extension = Path(file.filename).suffix.lower()
FileExtension(f) == Lower(f.suffix)

\* file_extension in readers
Supported(f) == FileExtension(f) \in readers

\* str(uuid.uuid4())[:8]: the values the 8-character prefix may take
Uids == {"3f2a91c0", "b7e4d215"}

\* s3_key = f"documents/{timestamp}/{unique_id}_{filename}"
S3Key(day, uid, f) == <<day, uid, f.stem, f.suffix>>

\* what str(exception) may be for a failed archive write: a botocore
\* ClientError always formats a message, any other exception may carry none
S3Failures == {"An error occurred (AccessDenied)", ""}

\* Python truthiness of an optional string
Truthy(s) == s # NoneStr /\ s # ""

\* no response has been sent yet
NoResponse == [status |-> 0]

\* HTTPException(status_code=..., detail=...)
ErrorResponse(code) == [status |-> code]

\* response_content and JSONResponse(status_code=200, ...): the keys warning
\* and s3_error are added `if s3_error:`
SuccessResponse(n, url, err) ==
    IF Truthy(err)
    THEN [status |-> 200, chunks_created |-> n, s3_url |-> url,
          warning |-> "Document processed successfully but S3 upload failed",
          s3_error |-> err]
    ELSE [status |-> 200, chunks_created |-> n, s3_url |-> url]

VARIABLES
    pc,         \* position of each upload request in upload_file
    filename,   \* file.filename
    tmp_name,   \* tmp_file.name: the temporary file the request created
    nodes,      \* len(nodes), 0 until the chunks exist
    s3_url,     \* s3_url local: the archive key written, or NoKey
    s3_error,   \* s3_error local: NoneStr, or str(s3_e)
    events,     \* history: which collaborator calls of the request returned or raised
    response,   \* the HTTP response of the request
    index,      \* Vector Index: the records stored
    archive,    \* Archive Store: key -> request whose bytes the entry holds
    fs,         \* temporary files on disk: [name, req]
    qresp       \* response of the last GET /query

vars == <<pc, filename, tmp_name, nodes, s3_url, s3_error, events, response,
          index, archive, fs, qresp>>

\* no query has been answered yet
NoQuery == [status |-> 0]

Init ==
    /\ pc = [r \in Reqs |-> "start"]
    /\ filename = [r \in Reqs |-> NoFile]
    /\ tmp_name = [r \in Reqs |-> NoName]
    /\ nodes = [r \in Reqs |-> 0]
    /\ s3_url = [r \in Reqs |-> NoKey]
    /\ s3_error = [r \in Reqs |-> NoneStr]
    /\ events = [r \in Reqs |-> {}]
    /\ response = [r \in Reqs |-> NoResponse]
    /\ index = {}
    /\ archive = <<>>
    /\ fs = {}
    /\ qresp = NoQuery

\* the chunk records one request's insertion stores (fresh node ids)
NodesOf(r, n) == { [req |-> r, n |-> i] : i \in 1..n }

\* tempfile.NamedTemporaryFile draws a random name and creates the file with
\* O_EXCL, retrying on a clash: the name differs from that of every file that
\* exists.  The model gives the file of request r the name r.
TmpFileName(r) == <<"tmp", r>>

\* os.unlink(path)
Unlink(path) == { e \in fs : e.name # path }

\* s3_client.put_object(Key=key, ...): a put under an existing key replaces it
PutObject(key, r) ==
    [k \in (DOMAIN archive) \cup {key} |-> IF k = key THEN r ELSE archive[k]]

\* history of the request: the collaborator call returned or raised
Record(r, e) == events' = [events EXCEPT ![r] = @ \cup {e}]

\* the request ends with `resp`
Respond(r, resp) ==
    /\ response' = [response EXCEPT ![r] = resp]
    /\ pc' = [pc EXCEPT ![r] = "done"]

\* lines 232-238: an exception leaves the inner try block; finally unlinks
\* tmp_file_path, the outer `except Exception` raises HTTPException(500)
RaiseInner(r) ==
    /\ fs' = Unlink(tmp_name[r])
    /\ Respond(r, ErrorResponse(500))

\* variant of UploadRejected: the temporary file is created before the
\* extension is validated
UploadRejectedMut(r) ==
    /\ pc[r] = "start"
    /\ \E f \in Filenames :
        /\ FileExtension(f) \notin readers
        /\ filename' = [filename EXCEPT ![r] = f]
    /\ tmp_name' = [tmp_name EXCEPT ![r] = TmpFileName(r)]
    /\ fs' = fs \cup {[name |-> TmpFileName(r), req |-> r]}
    /\ Record(r, "tmp_created")
    /\ Respond(r, ErrorResponse(500))
    /\ UNCHANGED <<nodes, s3_url, s3_error, index, archive, qresp>>

\* lines 159-166 and 236-238: the extension is not in readers;
\* HTTPException(400) is raised inside the outer try, whose
\* `except Exception` catches it and raises HTTPException(500)
UploadRejected(r) ==
    /\ pc[r] = "start"
    /\ \E f \in Filenames :
        /\ ~Supported(f)
        /\ filename' = [filename EXCEPT ![r] = f]
    /\ Respond(r, ErrorResponse(500))
    /\ UNCHANGED <<tmp_name, nodes, s3_url, s3_error, events, index, archive,
                   fs, qresp>>

\* lines 159-171: the extension is supported and
\* NamedTemporaryFile(delete=False) creates a file under an unused name
UploadAccepted(r) ==
    /\ pc[r] = "start"
    /\ \E f \in Filenames :
        /\ Supported(f)
        /\ filename' = [filename EXCEPT ![r] = f]
    /\ tmp_name' = [tmp_name EXCEPT ![r] = TmpFileName(r)]
    /\ fs' = fs \cup {[name |-> TmpFileName(r), req |-> r]}
    /\ Record(r, "tmp_created")
    /\ pc' = [pc EXCEPT ![r] = "read"]
    /\ UNCHANGED <<nodes, s3_url, s3_error, response, index, archive, qresp>>

\* lines 172-174: the bytes are read and written, tmp_file_path is set
ReadOk(r) ==
    /\ pc[r] = "read"
    /\ Record(r, "read_ok")
    /\ pc' = [pc EXCEPT ![r] = "load"]
    /\ UNCHANGED <<filename, tmp_name, nodes, s3_url, s3_error, response,
                   index, archive, fs, qresp>>

\* lines 172-173 raise: the with block closes the file (delete=False keeps
\* it), tmp_file_path is not yet set and the inner try/finally is not
\* entered; the outer except answers 500
ReadFail(r) ==
    /\ pc[r] = "read"
    /\ Record(r, "read_failed")
    /\ Respond(r, ErrorResponse(500))
    /\ UNCHANGED <<filename, tmp_name, nodes, s3_url, s3_error, index,
                   archive, fs, qresp>>

\* lines 178-190: load_data, metadata, get_nodes_from_documents return
LoadOk(r) ==
    /\ pc[r] = "load"
    /\ \E n \in 0..MaxNodes : nodes' = [nodes EXCEPT ![r] = n]
    /\ pc' = [pc EXCEPT ![r] = "insert"]
    /\ UNCHANGED <<filename, tmp_name, s3_url, s3_error, events, response,
                   index, archive, fs, qresp>>

\* variant of LoadFail: the extraction error is swallowed and the request
\* goes on with no chunks
LoadFailMut(r) ==
    /\ pc[r] = "load"
    /\ Record(r, "load_failed")
    /\ nodes' = [nodes EXCEPT ![r] = 0]
    /\ pc' = [pc EXCEPT ![r] = "insert"]
    /\ UNCHANGED <<filename, tmp_name, s3_url, s3_error, response, index,
                   archive, fs, qresp>>

\* lines 178-188 raise (extraction or chunking failure)
LoadFail(r) ==
    /\ pc[r] = "load"
    /\ Record(r, "load_failed")
    /\ RaiseInner(r)
    /\ UNCHANGED <<filename, tmp_name, nodes, s3_url, s3_error, index,
                   archive, qresp>>

\* line 193: index.insert_nodes(nodes) returns
InsertOk(r) ==
    /\ pc[r] = "insert"
    /\ index' = index \cup NodesOf(r, nodes[r])
    /\ Record(r, "insert_ok")
    /\ pc' = [pc EXCEPT ![r] = "stats"]
    /\ UNCHANGED <<filename, tmp_name, nodes, s3_url, s3_error, response,
                   archive, fs, qresp>>

\* variant of InsertFail: the insertion error is swallowed and the request
\* goes on to the stats check and the archive write
InsertFailMut(r) ==
    /\ pc[r] = "insert"
    /\ Record(r, "insert_failed")
    /\ pc' = [pc EXCEPT ![r] = "stats"]
    /\ UNCHANGED <<filename, tmp_name, nodes, s3_url, s3_error, response,
                   index, archive, fs, qresp>>

\* line 193 raises (embedding or vector-index failure; nothing is stored)
InsertFail(r) ==
    /\ pc[r] = "insert"
    /\ Record(r, "insert_failed")
    /\ RaiseInner(r)
    /\ UNCHANGED <<filename, tmp_name, nodes, s3_url, s3_error, index,
                   archive, qresp>>

\* line 196: pinecone_index.describe_index_stats() returns
StatsOk(r) ==
    /\ pc[r] = "stats"
    /\ pc' = [pc EXCEPT ![r] = "s3"]
    /\ UNCHANGED <<filename, tmp_name, nodes, s3_url, s3_error, events,
                   response, index, archive, fs, qresp>>

\* line 196 raises
StatsFail(r) ==
    /\ pc[r] = "stats"
    /\ Record(r, "stats_failed")
    /\ RaiseInner(r)
    /\ UNCHANGED <<filename, tmp_name, nodes, s3_url, s3_error, index,
                   archive, qresp>>

\* lines 213-234: response_content is assembled and returned with status 200;
\* finally unlinks tmp_file_path
ReturnSuccess(r, url, err) ==
    /\ fs' = Unlink(tmp_name[r])
    /\ Respond(r, SuccessResponse(nodes[r], url, err))

\* lines 204-208 and upload_file_to_s3 (106-131): put_object returns
S3Ok(r) ==
    /\ pc[r] = "s3"
    /\ \E day \in Days, uid \in Uids :
        LET key == S3Key(day, uid, filename[r]) IN
        /\ archive' = PutObject(key, r)
        /\ s3_url' = [s3_url EXCEPT ![r] = key]
        /\ ReturnSuccess(r, key, NoneStr)
    /\ Record(r, "s3_put")
    /\ UNCHANGED <<filename, tmp_name, nodes, s3_error, index, qresp>>

\* lines 206-211 and 133-135: put_object raises, upload_file_to_s3 lets the
\* exception through, `except Exception` records s3_error = str(s3_e)
S3Fail(r) ==
    /\ pc[r] = "s3"
    /\ \E e \in S3Failures :
        /\ s3_error' = [s3_error EXCEPT ![r] = e]
        /\ ReturnSuccess(r, NoKey, e)
    /\ Record(r, "s3_failed")
    /\ UNCHANGED <<filename, tmp_name, nodes, s3_url, index, archive, qresp>>

Next ==
    \/ \E r \in Reqs : UploadRejected(r)
    \/ \E r \in Reqs : UploadAccepted(r)
    \/ \E r \in Reqs : ReadOk(r)
    \/ \E r \in Reqs : ReadFail(r)
    \/ \E r \in Reqs : LoadOk(r)
    \/ \E r \in Reqs : LoadFail(r)
    \/ \E r \in Reqs : InsertOk(r)
    \/ \E r \in Reqs : InsertFail(r)
    \/ \E r \in Reqs : StatsOk(r)
    \/ \E r \in Reqs : StatsFail(r)
    \/ \E r \in Reqs : S3Ok(r)
    \/ \E r \in Reqs : S3Fail(r)

Spec == Init /\ [][Next]_vars

\* ------------------------------------------------------------ GET /query

\* the limits a client may send
LimitInputs == (MinLimit - 2)..(MaxLimit + 2)

\* variant of LimitValid: the upper bound le=50 is not enforced
LimitValidMut(limit) == limit >= MinLimit

\* limit: int = Query(10, ge=1, le=50): the framework validates the parameter
\* before the handler body runs
LimitValid(limit) == limit >= MinLimit /\ limit <= MaxLimit

Min(a, b) == IF a <= b THEN a ELSE b

\* index.as_retriever(similarity_top_k=k).retrieve(q): how many nodes a top-k
\* query over the stored records may yield
Retrieve(k) == 0..Min(k, Cardinality(index))

\* line 244: a limit outside [1, 50] is refused with 422 and query_documents
\* is not called
QueryRejected(limit) ==
    /\ ~LimitValid(limit)
    /\ qresp' = [status |-> 422, limit |-> limit]
    /\ UNCHANGED <<pc, filename, tmp_name, nodes, s3_url, s3_error, events,
                   response, index, archive, fs>>

\* lines 254-268: retrieval with similarity_top_k=limit, one result per node
QueryOk(limit) ==
    /\ LimitValid(limit)
    /\ \E n \in Retrieve(limit) :
        qresp' = [status |-> 200, limit |-> limit, top_k |-> limit,
                  total_results |-> n]
    /\ UNCHANGED <<pc, filename, tmp_name, nodes, s3_url, s3_error, events,
                   response, index, archive, fs>>

\* lines 270-274: the retriever raises, the handler answers 500
QueryFail(limit) ==
    /\ LimitValid(limit)
    /\ qresp' = [status |-> 500, limit |-> limit, top_k |-> limit]
    /\ UNCHANGED <<pc, filename, tmp_name, nodes, s3_url, s3_error, events,
                   response, index, archive, fs>>

\* queries are served over an index that earlier uploads have filled
QueryInit ==
    /\ pc = [r \in Reqs |-> "start"]
    /\ filename = [r \in Reqs |-> NoFile]
    /\ tmp_name = [r \in Reqs |-> NoName]
    /\ nodes = [r \in Reqs |-> 0]
    /\ s3_url = [r \in Reqs |-> NoKey]
    /\ s3_error = [r \in Reqs |-> NoneStr]
    /\ events = [r \in Reqs |-> {}]
    /\ response = [r \in Reqs |-> NoResponse]
    /\ \E k \in 0..MaxIndexed : index = NodesOf(0, k)
    /\ archive = <<>>
    /\ fs = {}
    /\ qresp = NoQuery

QueryNext ==
    \/ \E limit \in LimitInputs : QueryRejected(limit)
    \/ \E limit \in LimitInputs : QueryOk(limit)
    \/ \E limit \in LimitInputs : QueryFail(limit)

SpecQuery == QueryInit /\ [][QueryNext]_vars

\* ---------------------------------------------------------------- claims

Done(r) == pc[r] = "done"
Happened(r, e) == e \in events[r]
Unsupported(r) == filename[r] # NoFile /\ FileExtension(filename[r]) \notin readers
\* what request r has written to, or left in, the shared stores
IndexOf(r) == { x \in index : x.req = r }
ArchiveOf(r) == { k \in DOMAIN archive : archive[k] = r }
TmpFilesOf(r) == { e \in fs : e.req = r }

\* C1: an Archive Store put by a request is preceded by the successful
\* completion of that request's index insertion; a request whose insertion
\* fails ends with a 500 response and has written nothing to the archive.
C1_ArchiveOnlyAfterInsert ==
    \A r \in Reqs :
        /\ (Happened(r, "s3_put") \/ ArchiveOf(r) # {} \/ s3_url[r] # NoKey)
              => Happened(r, "insert_ok")
        /\ Happened(r, "insert_failed") =>
              /\ ~Happened(r, "s3_put")
              /\ ~Happened(r, "s3_failed")
              /\ ArchiveOf(r) = {}
              /\ Done(r) => response[r].status = 500

C1_Witness ==
    /\ \E r \in Reqs : Done(r) /\ Happened(r, "insert_failed")
    /\ \E r \in Reqs : Done(r) /\ Happened(r, "s3_put") /\ ArchiveOf(r) # {}

\* C2 (as claimed): an upload whose extraction and insertion succeeded and
\* whose archive write failed, with whatever failure, answers 200 with the
\* chunk count, a null s3_url, a non-null warning and the s3_error detail.
C2_ArchiveFailureWarns ==
    \A r \in Reqs :
        (Done(r) /\ Happened(r, "insert_ok") /\ Happened(r, "s3_failed")) =>
            /\ response[r].status = 200
            /\ response[r].chunks_created = nodes[r]
            /\ response[r].s3_url = NoKey
            /\ "warning" \in DOMAIN response[r]
            /\ "s3_error" \in DOMAIN response[r]

\* C3 (as claimed): an upload whose extension is not supported ends with a
\* 400 response, never with 500 or 200.
C3_UnsupportedIs400 ==
    \A r \in Reqs : (Done(r) /\ Unsupported(r)) => response[r].status = 400

\* C4: an upload with an unsupported extension has no side effects: it makes
\* no collaborator call (the bytes are not read, no temporary file is
\* created) and nothing in the index, the archive or the temporary directory
\* comes from it.
C4_UnsupportedNoEffects ==
    \A r \in Reqs :
        Unsupported(r) =>
            /\ events[r] = {}
            /\ tmp_name[r] = NoName
            /\ TmpFilesOf(r) = {}
            /\ IndexOf(r) = {}
            /\ ArchiveOf(r) = {}
            /\ s3_url[r] = NoKey

C4_Witness ==
    \E r, o \in Reqs :
        /\ Done(r) /\ Unsupported(r)
        /\ Done(o) /\ IndexOf(o) # {} /\ ArchiveOf(o) # {}

\* C5 (as claimed): once a request has ended, on whatever exit path, no
\* temporary file it created still exists.
C5_NoTempFileLeft ==
    \A r \in Reqs : Done(r) => TmpFilesOf(r) = {}

\* C6: an upload with a supported extension whose extraction fails ends with
\* a 500 response and has written neither to the index nor to the archive.
C6_ExtractionFailureAborts ==
    \A r \in Reqs :
        Happened(r, "load_failed") =>
            /\ Done(r) => response[r].status = 500
            /\ ~Happened(r, "insert_ok")
            /\ ~Happened(r, "s3_put")
            /\ IndexOf(r) = {}
            /\ ArchiveOf(r) = {}

C6_Witness ==
    \E r \in Reqs :
        /\ Done(r) /\ Happened(r, "load_failed")
        /\ FileExtension(filename[r]) \in readers
        /\ index # {}

\* C7 (as claimed): under any interleaving no request overwrites or removes
\* what another stored: the index holds the chunk records of every request
\* whose insertion succeeded, the archive holds a distinct entry for every
\* request whose archive write succeeded, and a request's temporary file
\* exists until the request itself removes it.
C7_NoInterference ==
    \A r \in Reqs :
        /\ Happened(r, "insert_ok") => NodesOf(r, nodes[r]) \subseteq index
        /\ Happened(r, "s3_put") =>
              s3_url[r] \in DOMAIN archive /\ archive[s3_url[r]] = r
        /\ pc[r] \in {"read", "load", "insert", "stats", "s3"} =>
              [name |-> tmp_name[r], req |-> r] \in fs

\* C9 (as claimed): for every requested limit the retrieval is made with the
\* bound min(max(limit, 1), 50) and at most that many results are returned;
\* an out-of-range limit is not rejected.
Clamp(limit) == Min(IF limit >= MinLimit THEN limit ELSE MinLimit, MaxLimit)

C9_LimitClamped ==
    qresp # NoQuery =>
        /\ qresp.status \in {200, 500}
        /\ qresp.top_k = Clamp(qresp.limit)
        /\ qresp.status = 200 => qresp.total_results <= Clamp(qresp.limit)

\* C9 (amended): a limit within [1, 50] is used unchanged as the retrieval
\* bound and at most that many results are returned; a limit outside
\* [1, 50] is rejected with 422 and no retrieval is made.
C9_LimitValidated ==
    qresp # NoQuery =>
        IF qresp.limit >= 1 /\ qresp.limit <= 50
        THEN /\ qresp.status \in {200, 500}
             /\ qresp.top_k = qresp.limit
             /\ qresp.status = 200 =>
                   /\ qresp.total_results >= 0
                   /\ qresp.total_results <= qresp.limit
        ELSE /\ qresp.status = 422
             /\ "top_k" \notin DOMAIN qresp
             /\ "total_results" \notin DOMAIN qresp

C9_Witness ==
    /\ index # {}
    /\ qresp.status = 422
    /\ qresp.limit = MaxLimit + 1

\* C10 (as claimed): a request that ends with an error response has made no
\* mutation of the index: once its insertion has succeeded it ends with 200.
C10_ErrorMeansNoIndexWrite ==
    \A r \in Reqs :
        (Done(r) /\ response[r].status \in {400, 500}) =>
            IndexOf(r) = {}

====
